---- MODULE Spec2Model ----
(***************************************************************************)
(* A model of maze.cpp: Generate (randomised wall removal driven by a      *)
(* union-find over the cells), Solve (depth-first search over a fringe of  *)
(* full paths) and the part of main that calls one after the other.        *)
(*                                                                         *)
(* Positions are pairs <<y, x>>, as Pos in the source.                     *)
(***************************************************************************)
EXTENDS Integers, Sequences, FiniteSets, TLC

\* Bounds of the model.
MaxWidth == 3
MaxHeight == 2
MaxCells == 6
MaxMask == 2
MaxSkips == 1

VARIABLES
  Width, Height,          \* parameters of Generate and Solve
  sx, sy, fx, fy,         \* start (sx,sy) and finish (fx,fy)
  mask,                   \* const Mask &mask
  adj_out,                \* Connections: cell -> Adjacency
  pos2ec,                 \* EqClass::rep of every cell's EqClass
  total_iterations,
  productive_iterations,
  draws,                  \* history: candidate walls drawn so far
  ub,                     \* history: undefined behaviour executed, if any
  pc,                     \* where the program is
  fringe,                 \* Solve's std::vector<Path>
  path_out,               \* Solve's out-parameter
  ret,                    \* Solve's return value, "none" before it returns
  twin                    \* history: the other run or call a run is compared
                          \* with, of kind "none" where one run alone is
                          \* modelled

vars == <<Width, Height, sx, sy, fx, fy, mask, adj_out, pos2ec,
          total_iterations, productive_iterations, draws, ub, pc,
          fringe, path_out, ret, twin>>

params == <<Width, Height, sx, sy, fx, fy, mask>>
genvars == <<adj_out, pos2ec, total_iterations, productive_iterations, draws>>
solvevars == <<fringe, path_out, ret>>

Pos(y, x) == <<y, x>>

CellsOf(h, w) == (0 .. h - 1) \X (0 .. w - 1)

Cells == CellsOf(Height, Width)

Adjacency == [to_east |-> FALSE, to_south |-> FALSE]

AllWallsUp(h, w) == [c \in CellsOf(h, w) |-> Adjacency]

Start == Pos(sy, sx)

Finish == Pos(fy, fx)

(***************************************************************************)
(* EqClass: the union-find.  r maps every cell to the cell its rep pointer *)
(* points to.                                                              *)
(***************************************************************************)
EqClassInit(h, w) == [c \in CellsOf(h, w) |-> c]

RECURSIVE RepOf(_, _)
RepOf(r, c) == IF r[c] = c THEN c ELSE RepOf(r, r[c])

RECURSIVE RepChain(_, _)
RepChain(r, c) == IF r[c] = c THEN {c} ELSE {c} \cup RepChain(r, r[c])

\* find_rep as it would be without the recursive call: it returns what rep
\* points to and compresses nothing.
find_rep_parent(r, c) == [result |-> r[c], rep |-> r]

\* find_rep returns the representative and points every EqClass on the
\* way at it.
find_rep(r, c) ==
  LET root  == RepOf(r, c)
      chain == RepChain(r, c)
  IN  [result |-> root,
       rep    |-> [d \in DOMAIN r |-> IF d \in chain THEN root ELSE r[d]]]

\* merge as it would be if it linked other itself, not other's
\* representative, under this.
merge_not_rep(r, this, other) ==
  LET f1 == find_rep(r, this)
      f2 == find_rep(f1.rep, other)
  IN  IF f1.result # f2.result
        THEN [f2.rep EXCEPT ![other] = f1.result]
        ELSE f2.rep

merge(r, this, other) ==
  LET f1 == find_rep(r, this)
      f2 == find_rep(f1.rep, other)
  IN  IF f1.result # f2.result
        THEN [f2.rep EXCEPT ![f2.result] = f1.result]
        ELSE f2.rep

\* operator== as it would be if it compared the two rep pointers
\* themselves, without find_rep.
ec_equal_raw(r, this, other) == [result |-> r[this] = r[other], rep |-> r]

\* operator==.  The two find_rep calls compress disjoint or nested chains,
\* so either order of evaluation leaves the same pointers.
ec_equal(r, this, other) ==
  LET f1 == find_rep(r, this)
      f2 == find_rep(f1.rep, other)
  IN  [result |-> f1.result = f2.result, rep |-> f2.rep]

(***************************************************************************)
(* Generate                                                                *)
(***************************************************************************)
Masks(h, w) == {m \in SUBSET CellsOf(h, w) : Cardinality(m) <= MaxMask}

GenerateEntry(h, w) ==
  /\ Width = w
  /\ Height = h
  /\ \E s \in CellsOf(h, w), f \in CellsOf(h, w) :
       /\ sy = s[1] /\ sx = s[2]
       /\ fy = f[1] /\ fx = f[2]
  /\ mask \in Masks(h, w)
  /\ adj_out = AllWallsUp(h, w)
  /\ pos2ec = EqClassInit(h, w)
  /\ total_iterations = 0
  /\ productive_iterations = 0
  /\ draws = 0
  /\ ub = "none"
  /\ pc = "generate"
  /\ fringe = <<>>
  /\ path_out = <<>>
  /\ ret = "none"

Init ==
  \E h \in 2 .. MaxHeight, w \in 2 .. MaxWidth :
    /\ h * w <= MaxCells
    /\ GenerateEntry(h, w)
    /\ twin = [kind |-> "none"]

\* The mask test as it would be with its sense inverted.
MaskedInverted(m, y, x) == Pos(y, x) \notin m

\* mask.count(Pos(y,x)) of lines 84 and 103.
Masked(m, y, x) == Pos(y, x) \in m

\* The far side of the candidate wall.
Beyond(dir, y, x) == IF dir = "east" THEN Pos(y, x + 1) ELSE Pos(y + 1, x)

WallOpen(a, dir, y, x) ==
  IF dir = "east" THEN a[Pos(y, x)].to_east ELSE a[Pos(y, x)].to_south

\* Line 114 as it would be if it had been copied from line 95 unchanged:
\* the south branch sets to_east.
RemoveWallCopied(a, dir, y, x) == [a EXCEPT ![Pos(y, x)].to_east = TRUE]

RemoveWall(a, dir, y, x) ==
  IF dir = "east"
    THEN [a EXCEPT ![Pos(y, x)].to_east = TRUE]
    ELSE [a EXCEPT ![Pos(y, x)].to_south = TRUE]

\* The test of line 121 as it would be if it compared start with itself.
StartFinishTestSelf(r) == ec_equal(r, Start, Start)

\* The test that ends the loop, line 121.
StartFinishTest(r) == ec_equal(r, Start, Finish)

\* Lines 118-122 as they would be if line 121 compared the two rep
\* pointers themselves, without find_rep.
ProductiveRaw(r) ==
  /\ productive_iterations' = productive_iterations + 1
  /\ pos2ec' = r
  /\ IF r[Start] = r[Finish]
       THEN pc' = "generated" /\ UNCHANGED total_iterations
       ELSE pc' = pc /\ total_iterations' = total_iterations + 1

\* "continue": the for statement's ++total_iterations runs.
Continue(r) ==
  /\ total_iterations - productive_iterations < MaxSkips
  /\ total_iterations' = total_iterations + 1
  /\ pos2ec' = r
  /\ UNCHANGED <<adj_out, productive_iterations, pc>>

\* Lines 118-122, after a wall came down.
Productive(r) ==
  \E t \in {StartFinishTest(r)} :
  /\ productive_iterations' = productive_iterations + 1
  /\ pos2ec' = t.rep
  /\ IF t.result
       THEN pc' = "generated" /\ UNCHANGED total_iterations
       ELSE pc' = pc /\ total_iterations' = total_iterations + 1

\* One iteration of the loop with the candidate wall (dir, y, x) drawn.
\* The results of operator== and merge are bound by \E over a one-element
\* set, so that each is computed once.
Iteration(dir, y, x) ==
  /\ draws' = draws + 1
  /\ UNCHANGED <<params, solvevars, ub>>
  /\ IF Masked(mask, y, x) THEN Continue(pos2ec)
     ELSE IF WallOpen(adj_out, dir, y, x) THEN Continue(pos2ec)
     ELSE \E eq \in {ec_equal(pos2ec, Pos(y, x), Beyond(dir, y, x))} :
          IF eq.result THEN Continue(eq.rep)
          ELSE \E merged \in {merge(eq.rep, Pos(y, x), Beyond(dir, y, x))} :
               /\ adj_out' = RemoveWall(adj_out, dir, y, x)
               /\ Productive(merged)

GenerateEast ==
  /\ pc = "generate"
  /\ UNCHANGED twin
  /\ \E x \in 0 .. Width - 2, y \in 0 .. Height - 1 : Iteration("east", y, x)

GenerateSouth ==
  /\ pc = "generate"
  /\ UNCHANGED twin
  /\ \E x \in 0 .. Width - 1, y \in 0 .. Height - 2 : Iteration("south", y, x)

(***************************************************************************)
(* Solve                                                                   *)
(***************************************************************************)
Back(s) == s[Len(s)]

PopBack(s) == SubSeq(s, 1, Len(s) - 1)

Contains(path, p) == \E i \in 1 .. Len(path) : path[i] = p

\* The lambda as it would be without the search for p2 in some_path.
step_unchecked(fr, some_path, p2) == Append(fr, Append(some_path, p2))

\* The lambda of lines 200-206.
step(fr, some_path, p2) ==
  IF ~Contains(some_path, p2) THEN Append(fr, Append(some_path, p2)) ELSE fr

GoNorth(adj, h, w, p1) == p1[1] - 1 >= 0 /\ adj[Pos(p1[1] - 1, p1[2])].to_south

\* The eastern test as it would be without the comparison with Width.
GoEastUnbounded(adj, h, w, p1) == adj[p1].to_east

GoEast(adj, h, w, p1) == p1[2] + 1 < w /\ adj[p1].to_east

GoSouth(adj, h, w, p1) == p1[1] + 1 < h /\ adj[p1].to_south

\* The western test as it would be with > in place of >=.
GoWestStrict(adj, h, w, p1) ==
  p1[2] - 1 > 0 /\ adj[Pos(p1[1], p1[2] - 1)].to_east

GoWest(adj, h, w, p1) == p1[2] - 1 >= 0 /\ adj[Pos(p1[1], p1[2] - 1)].to_east

\* The elements of adj that lines 208-219 read for the path ending at p1:
\* each && reads adj only when the comparison before it holds.
Reads(h, w, p1) ==
  (IF p1[1] - 1 >= 0 THEN {Pos(p1[1] - 1, p1[2])} ELSE {})
    \cup (IF p1[2] + 1 < w THEN {p1} ELSE {})
    \cup (IF p1[1] + 1 < h THEN {p1} ELSE {})
    \cup (IF p1[2] - 1 >= 0 THEN {Pos(p1[1], p1[2] - 1)} ELSE {})

\* Lines 208-219.
Expand(fr, adj, h, w, some_path) ==
  LET p1 == Back(some_path)
      f1 == IF GoNorth(adj, h, w, p1)
              THEN step(fr, some_path, Pos(p1[1] - 1, p1[2])) ELSE fr
      f2 == IF GoEast(adj, h, w, p1)
              THEN step(f1, some_path, Pos(p1[1], p1[2] + 1)) ELSE f1
      f3 == IF GoSouth(adj, h, w, p1)
              THEN step(f2, some_path, Pos(p1[1] + 1, p1[2])) ELSE f2
      f4 == IF GoWest(adj, h, w, p1)
              THEN step(f3, some_path, Pos(p1[1], p1[2] - 1)) ELSE f3
  IN  f4

\* Line 196 as it would be if it appended the path found to what path_out
\* held.
swap_appended(out, some_path) == out \o some_path

\* path_out.swap(some_path), line 196: what path_out holds afterwards.
swap(out, some_path) == some_path

AtFinish(p1) == p1[1] = fy /\ p1[2] = fx

\* main calls Solve: lines 184-186.
SolveEntry ==
  /\ pc = "generated"
  /\ fringe' = << <<Pos(sy, sx)>> >>
  /\ pc' = "solve"
  /\ UNCHANGED <<params, genvars, ub, path_out, ret, twin>>

\* One test of the while condition: the loop body (lines 189-219), or the
\* return of line 222 when the fringe is empty.
SolveLoop ==
  /\ pc = "solve"
  /\ IF fringe = <<>>
       THEN /\ ret' = "false"
            /\ pc' = "done"
            /\ UNCHANGED <<fringe, path_out>>
       ELSE LET some_path == Back(fringe)
                rest == PopBack(fringe)
            IN  IF AtFinish(Back(some_path))
                  THEN /\ path_out' = swap(path_out, some_path)
                       /\ ret' = "true"
                       /\ pc' = "done"
                       /\ fringe' = rest
                  ELSE /\ fringe' = Expand(rest, adj_out, Height, Width, some_path)
                       /\ UNCHANGED <<path_out, ret, pc>>
  /\ UNCHANGED <<params, genvars, ub, twin>>

SolveNext == SolveEntry \/ SolveLoop

Next == GenerateEast \/ GenerateSouth \/ SolveNext

Spec == Init /\ [][Next]_vars

\* Generate alone, from its entry to its return.
NextGenerate == GenerateEast \/ GenerateSouth

SpecGenerate == Init /\ [][NextGenerate]_vars

(***************************************************************************)
(* Generate with an empty mask under fair draws.  rand() is taken to draw  *)
(* every candidate wall again and again, so a wall that stays eligible (up, *)
(* its two cells not yet in one class) is eventually drawn: as long as an  *)
(* iteration that removes a wall is possible, one eventually happens.      *)
(* Draws that remove nothing are the stuttering steps and the Continue     *)
(* steps of the behaviour.                                                 *)
(***************************************************************************)
InitFair == Init /\ mask = {}

GenerateProductive == NextGenerate /\ adj_out' # adj_out

SpecFair ==
  InitFair /\ [][NextGenerate]_vars /\ WF_vars(GenerateProductive)

(***************************************************************************)
(* Solve on any connectivity grid, not only on one Generate produced: the  *)
(* caller hands Solve a Height x Width grid with any flags set.            *)
(***************************************************************************)
Grids(h, w) == [CellsOf(h, w) -> [to_east : BOOLEAN, to_south : BOOLEAN]]

InitSolve ==
  \E h \in 1 .. MaxHeight, w \in 1 .. MaxWidth :
    /\ h * w <= MaxCells
    /\ Width = w
    /\ Height = h
    /\ \E s \in CellsOf(h, w), f \in CellsOf(h, w) :
         /\ sy = s[1] /\ sx = s[2]
         /\ fy = f[1] /\ fx = f[2]
    /\ mask = {}
    /\ adj_out \in Grids(h, w)
    /\ pos2ec = EqClassInit(h, w)
    /\ total_iterations = 0
    /\ productive_iterations = 0
    /\ draws = 0
    /\ ub = "none"
    /\ pc = "generated"
    /\ fringe = <<>>
    /\ path_out = <<>>
    /\ ret = "none"
    /\ twin = [kind |-> "none"]

SpecSolve == InitSolve /\ [][SolveNext]_vars

\* Solve is sequential code: once called it keeps executing, so its next
\* step is taken whenever there is one.
SpecSolveFair == InitSolve /\ [][SolveNext]_vars /\ WF_vars(SolveNext)

(***************************************************************************)
(* Generate on a grid one cell wide or one cell high.  Width - 1 or        *)
(* Height - 1 is then 0 and rand() % 0 is undefined: the build either      *)
(* traps (integer division traps where the hardware traps) or goes on with *)
(* some value.  With a value, the candidate is skipped if it is in the     *)
(* mask; otherwise line 91 or 110 indexes pos2ec outside the grid, after   *)
(* which the run is lost ("crashed") or happens to continue.               *)
(***************************************************************************)
InitDegenerate ==
  \E h \in 1 .. MaxHeight, w \in 1 .. MaxWidth :
    /\ h = 1 \/ w = 1
    /\ h * w <= MaxCells
    /\ GenerateEntry(h, w)
    /\ twin = [kind |-> "none"]

RemainderByZero(y, x) ==
  /\ draws' = draws + 1
  /\ UNCHANGED <<params, solvevars, adj_out, productive_iterations, twin>>
  /\ \/ /\ ub' = "rem_by_zero"
        /\ pc' = "crashed"
        /\ UNCHANGED <<pos2ec, total_iterations>>
     \/ /\ Masked(mask, y, x)
        /\ ub' = "rem_by_zero"
        /\ Continue(pos2ec)
     \/ /\ ~Masked(mask, y, x)
        /\ ub' = "out_of_bounds"
        /\ \/ pc' = "crashed" /\ UNCHANGED <<pos2ec, total_iterations>>
           \/ Continue(pos2ec)

GenerateEastDegenerate ==
  /\ pc = "generate"
  /\ Width - 1 = 0
  /\ \E x \in 0 .. MaxWidth - 1, y \in 0 .. Height - 1 : RemainderByZero(y, x)

GenerateSouthDegenerate ==
  /\ pc = "generate"
  /\ Height - 1 = 0
  /\ \E x \in 0 .. Width - 1, y \in 0 .. MaxHeight - 1 : RemainderByZero(y, x)

NextDegenerate == Next \/ GenerateEastDegenerate \/ GenerateSouthDegenerate

SpecDegenerate == InitDegenerate /\ [][NextDegenerate]_vars

(***************************************************************************)
(* Two runs of Generate on the same arguments and the same random stream.  *)
(* The first is the run modelled above.  The second is kept in twin, and   *)
(* evaluates the operands of operator== (lines 61, 92, 111, 121) in the    *)
(* other order, which the language leaves to the build.                    *)
(***************************************************************************)
ec_equal_rev(r, this, other) ==
  LET f2 == find_rep(r, other)
      f1 == find_rep(f2.rep, this)
  IN  [result |-> f1.result = f2.result, rep |-> f1.rep]

GenerateState ==
  [kind |-> "generate", adj_out |-> adj_out, pos2ec |-> pos2ec,
   total_iterations |-> total_iterations,
   productive_iterations |-> productive_iterations, pc |-> pc]

\* Lines 79-122 on the second run's state t.
TwinIteration(t, dir, y, x) ==
  LET skipped == [t EXCEPT !.total_iterations = @ + 1] IN
  IF Masked(mask, y, x) THEN skipped
  ELSE IF WallOpen(t.adj_out, dir, y, x) THEN skipped
  ELSE LET eq == ec_equal_rev(t.pos2ec, Pos(y, x), Beyond(dir, y, x)) IN
       IF eq.result THEN [skipped EXCEPT !.pos2ec = eq.rep]
       ELSE LET merged == merge(eq.rep, Pos(y, x), Beyond(dir, y, x))
                test == ec_equal_rev(merged, Start, Finish)
            IN  [kind |-> "generate",
                 adj_out |-> RemoveWall(t.adj_out, dir, y, x),
                 pos2ec |-> test.rep,
                 total_iterations |->
                   IF test.result THEN t.total_iterations
                                  ELSE t.total_iterations + 1,
                 productive_iterations |-> t.productive_iterations + 1,
                 pc |-> IF test.result THEN "generated" ELSE t.pc]

InitTwin ==
  \E h \in 2 .. MaxHeight, w \in 2 .. MaxWidth :
    /\ h * w <= MaxCells
    /\ GenerateEntry(h, w)
    /\ twin = [kind |-> "generate",
               adj_out |-> AllWallsUp(h, w), pos2ec |-> EqClassInit(h, w),
               total_iterations |-> 0, productive_iterations |-> 0,
               pc |-> "generate"]

TwinEast ==
  /\ pc = "generate"
  /\ \E x \in 0 .. Width - 2, y \in 0 .. Height - 1 :
       /\ Iteration("east", y, x)
       /\ twin' = TwinIteration(twin, "east", y, x)

TwinSouth ==
  /\ pc = "generate"
  /\ \E x \in 0 .. Width - 1, y \in 0 .. Height - 2 :
       /\ Iteration("south", y, x)
       /\ twin' = TwinIteration(twin, "south", y, x)

NextTwin == TwinEast \/ TwinSouth

SpecTwin == InitTwin /\ [][NextTwin]_vars

(***************************************************************************)
(* Solve called twice on the same grid with the same start and finish.     *)
(* path_out is the caller's variable and holds anything before each call;  *)
(* twin keeps what the first call returned and what path_out held before   *)
(* the second.                                                             *)
(***************************************************************************)
MaxCellsTwice == 4

PriorPaths == {<<>>, << Pos(0, 0) >>}

InitSolveTwice ==
  \E h \in 1 .. MaxHeight, w \in 1 .. MaxWidth :
    /\ h * w <= MaxCellsTwice
    /\ Width = w
    /\ Height = h
    /\ \E s \in CellsOf(h, w), f \in CellsOf(h, w) :
         /\ sy = s[1] /\ sx = s[2]
         /\ fy = f[1] /\ fx = f[2]
    /\ mask = {}
    /\ adj_out \in Grids(h, w)
    /\ pos2ec = EqClassInit(h, w)
    /\ total_iterations = 0
    /\ productive_iterations = 0
    /\ draws = 0
    /\ ub = "none"
    /\ pc = "generated"
    /\ fringe = <<>>
    /\ path_out \in PriorPaths
    /\ ret = "none"
    /\ twin = [kind |-> "none"]

\* The caller keeps the first call's results and calls Solve again.
SolveAgain ==
  /\ pc = "done"
  /\ twin.kind = "none"
  /\ \E held \in PriorPaths :
       /\ twin' = [kind |-> "solve", ret |-> ret, path_out |-> path_out,
                   adj_out |-> adj_out, held |-> held]
       /\ path_out' = held
  /\ ret' = "none"
  /\ fringe' = <<>>
  /\ pc' = "generated"
  /\ UNCHANGED <<params, genvars, ub>>

NextSolveTwice == SolveNext \/ SolveAgain

SpecSolveTwice == InitSolveTwice /\ [][NextSolveTwice]_vars

(***************************************************************************)
(* Generate and Solve on a 3x3 grid whose start and finish are cardinal    *)
(* neighbours and whose every other cell is in the mask.                   *)
(***************************************************************************)
InitEnclosed ==
  /\ Width = 3
  /\ Height = 3
  /\ \E s \in CellsOf(3, 3), f \in CellsOf(3, 3) :
       /\ \/ s[1] = f[1] /\ (s[2] = f[2] + 1 \/ f[2] = s[2] + 1)
          \/ s[2] = f[2] /\ (s[1] = f[1] + 1 \/ f[1] = s[1] + 1)
       /\ sy = s[1] /\ sx = s[2]
       /\ fy = f[1] /\ fx = f[2]
       /\ mask = CellsOf(3, 3) \ {s, f}
  /\ adj_out = AllWallsUp(3, 3)
  /\ pos2ec = EqClassInit(3, 3)
  /\ total_iterations = 0
  /\ productive_iterations = 0
  /\ draws = 0
  /\ ub = "none"
  /\ pc = "generate"
  /\ fringe = <<>>
  /\ path_out = <<>>
  /\ ret = "none"
  /\ twin = [kind |-> "none"]

SpecEnclosed == InitEnclosed /\ [][Next]_vars

(***************************************************************************)
(* The maze as a graph, for stating the properties: two cells of the grid  *)
(* are joined when the wall between them is open, that is when the western *)
(* cell's to_east or the northern cell's to_south is set.                  *)
(***************************************************************************)
Joined(a, h, w, p, q) ==
  /\ p \in CellsOf(h, w)
  /\ q \in CellsOf(h, w)
  /\ \/ q = Pos(p[1], p[2] + 1) /\ a[p].to_east
     \/ q = Pos(p[1] + 1, p[2]) /\ a[p].to_south
     \/ p = Pos(q[1], q[2] + 1) /\ a[q].to_east
     \/ p = Pos(q[1] + 1, q[2]) /\ a[q].to_south

Around(p) ==
  {Pos(p[1] - 1, p[2]), Pos(p[1], p[2] + 1),
   Pos(p[1] + 1, p[2]), Pos(p[1], p[2] - 1)}

GrowOnce(a, h, w, seen) ==
  seen \cup UNION {{q \in Around(p) : Joined(a, h, w, p, q)} : p \in seen}

RECURSIVE Grow(_, _, _, _)
Grow(a, h, w, seen) ==
  UNION {IF more = seen THEN seen ELSE Grow(a, h, w, more) :
           more \in {GrowOnce(a, h, w, seen)}}

\* The cells a path of open walls joins to p.
Component(a, h, w, p) == Grow(a, h, w, {p})

\* The open walls inside the grid, each as the pair of cells it joins.
WallsDown(a, h, w) ==
  {<<c, Pos(c[1], c[2] + 1)>> :
     c \in {d \in CellsOf(h, w) : d[2] + 1 < w /\ a[d].to_east}}
  \cup {<<c, Pos(c[1] + 1, c[2])>> :
          c \in {d \in CellsOf(h, w) : d[1] + 1 < h /\ a[d].to_south}}

\* The partition parts after its blocks are united along every wall of
\* walls.
RECURSIVE JoinBlocks(_, _)
JoinBlocks(parts, walls) ==
  IF walls = {} THEN parts
  ELSE LET e  == CHOOSE e \in walls : TRUE
           b1 == CHOOSE b \in parts : e[1] \in b
           b2 == CHOOSE b \in parts : e[2] \in b
       IN  JoinBlocks((parts \ {b1, b2}) \cup {b1 \cup b2}, walls \ {e})

\* The components of the maze: the sets of cells that paths of open walls
\* join to one another.
Components(a, h, w) ==
  JoinBlocks({{c} : c \in CellsOf(h, w)}, WallsDown(a, h, w))

Linked(p, q) == q \in Component(adj_out, Height, Width, p)

RECURSIVE SimplePathsVia(_, _, _, _, _)
SimplePathsVia(a, h, w, path, f) ==
  IF Back(path) = f THEN {path}
  ELSE UNION {SimplePathsVia(a, h, w, Append(path, q), f) :
                q \in {c \in Around(Back(path)) :
                         Joined(a, h, w, Back(path), c) /\ ~Contains(path, c)}}

\* Every simple path of open walls from s to f.
SimplePaths(a, h, w, s, f) == SimplePathsVia(a, h, w, <<s>>, f)

OpenWalls(a) ==
  Cardinality({c \in DOMAIN a : a[c].to_east})
    + Cardinality({c \in DOMAIN a : a[c].to_south})

Returned == pc \in {"generated", "solve", "done"}

MainConfiguration == sx = 0 /\ sy = 0 /\ fx = Width - 1 /\ fy = Height - 1

\* What Generate expects of its caller: start and finish distinct and
\* outside the mask.
Contract == Start # Finish /\ Start \notin mask /\ Finish \notin mask

\* C1: in every state of Generate and in its result no wall around a
\* masked cell is open: the cell's own to_east and to_south are false, and
\* so are its western neighbour's to_east and its northern neighbour's
\* to_south.  Stated for the calls that keep Generate's contract.
C1_MaskedCellsWalled ==
  Contract => \A c \in mask :
    /\ ~adj_out[c].to_east
    /\ ~adj_out[c].to_south
    /\ c[2] > 0 => ~adj_out[Pos(c[1], c[2] - 1)].to_east
    /\ c[1] > 0 => ~adj_out[Pos(c[1] - 1, c[2])].to_south

\* C2: once Generate has returned, with start and finish distinct, the
\* grid holds exactly one simple path of open walls from start to finish,
\* and that path is what Solve returns, whatever order it explores in.
C2_UniquePath ==
  (Returned /\ Start # Finish) =>
    LET paths == SimplePaths(adj_out, Height, Width, Start, Finish) IN
    /\ Cardinality(paths) = 1
    /\ ret = "true" => path_out \in paths

C2_Witness ==
  /\ pc = "done"
  /\ ret = "true"
  /\ Len(path_out) >= 4
  /\ OpenWalls(adj_out) > Len(path_out) - 1

\* C3: with an empty mask, Solve on the grid Generate returned, with the
\* same start and finish, returns true.
C3_EmptyMaskSolved == (mask = {} /\ pc = "done") => ret = "true"

C3_Witness ==
  /\ mask = {}
  /\ pc = "done"
  /\ ret = "true"
  /\ Len(path_out) >= 3

WellFormed(path) ==
  /\ Len(path) >= 1
  /\ path[1] = Start
  /\ \A i, j \in 1 .. Len(path) : i # j => path[i] # path[j]
  /\ \A i \in 1 .. Len(path) - 1 :
       Joined(adj_out, Height, Width, path[i], path[i + 1])

\* C4: when Solve returns true, path_out begins with start, ends with
\* finish, repeats no coordinate, and every two consecutive coordinates
\* are cardinal neighbours inside the grid joined by an open wall; every
\* partial path in the fringe is the same, except that it need not end at
\* finish.
C4_PathsWellFormed ==
  /\ \A i \in 1 .. Len(fringe) : WellFormed(fringe[i])
  /\ ret = "true" => WellFormed(path_out) /\ Back(path_out) = Finish

C4_Witness ==
  /\ ret = "true"
  /\ Len(path_out) >= 4
  /\ Len(fringe) >= 1
  /\ Cardinality(SimplePaths(adj_out, Height, Width, Start, Finish)) >= 2

\* C5: with start and finish distinct, every state still in Generate's
\* loop has start and finish in different components, so the iteration
\* that joins them is the one that leaves the loop, and every step that
\* removes a wall starts in a state where they are not yet joined.
C5_StopsAtFirstConnection ==
  /\ []((Start # Finish /\ pc = "generate") => ~Linked(Start, Finish))
  /\ [][(Start # Finish /\ adj_out' # adj_out) => ~Linked(Start, Finish)]_vars

\* Generate has returned while some cell is still in another component.
C5_Witness ==
  /\ pc = "generated"
  /\ Start # Finish
  /\ \E c \in Cells : ~Linked(Start, c)
  /\ \E c \in Cells : c # Start /\ c # Finish /\ Linked(Start, c)

Beside(p, q) ==
  \/ q[1] = p[1] /\ (q[2] = p[2] + 1 \/ q[2] = p[2] - 1)
  \/ q[2] = p[2] /\ (q[1] = p[1] + 1 \/ q[1] = p[1] - 1)

GrowUnmaskedOnce(h, w, m, seen) ==
  seen \cup {q \in CellsOf(h, w) \ m : \E p \in seen : Beside(p, q)}

RECURSIVE GrowUnmasked(_, _, _, _)
GrowUnmasked(h, w, m, seen) ==
  UNION {IF more = seen THEN seen ELSE GrowUnmasked(h, w, m, more) :
           more \in {GrowUnmaskedOnce(h, w, m, seen)}}

\* Every path of cardinal steps from start to finish meets a masked cell,
\* start and finish themselves being outside the mask.
MaskPartitions ==
  /\ Start \notin mask
  /\ Finish \notin mask
  /\ Finish \notin GrowUnmasked(Height, Width, mask, {Start})

\* C6: if the mask partitions start from finish, Generate never leaves its
\* loop: start and finish are never in the same component.
C6_PartitionNeverTerminates ==
  MaskPartitions => (pc = "generate" /\ ~Linked(Start, Finish))

\* C7: if the mask contains the start cell or the finish cell, Generate
\* never leaves its loop; stated for main's configuration, start (0,0) and
\* finish (Height-1, Width-1), which the claim includes.
C7_MaskedEndpointNeverTerminates ==
  (MainConfiguration /\ (Start \in mask \/ Finish \in mask)) => pc = "generate"

\* C8: on every connectivity grid Solve returns false exactly when no
\* path of open walls leads from start to finish, and true otherwise.
C8_SolveDecidesReachability ==
  pc = "done" => (ret = "false" <=> ~Linked(Start, Finish))
                 /\ (ret = "true" <=> Linked(Start, Finish))

\* Solve gave up after searching a component of several cells.
C8_Witness ==
  /\ pc = "done"
  /\ ret = "false"
  /\ Cardinality(Component(adj_out, Height, Width, Start)) >= 3

\* C9: when Generate returns, total_iterations is the number of candidate
\* walls drawn, productive_iterations the number of walls removed, so
\* productive_iterations <= total_iterations and total_iterations >= 1.
\* Stated for the calls that keep Generate's contract.
C9_CountersAtReturn ==
  (Contract /\ Returned) =>
    /\ total_iterations = draws
    /\ productive_iterations = OpenWalls(adj_out)
    /\ productive_iterations <= total_iterations
    /\ total_iterations >= 1

\* C10: with Width or Height equal to 1, Generate never evaluates a
\* remainder by zero, and it terminates or fails in a defined way.
C10_DegenerateHandled == ub = "none" /\ pc # "crashed"

TwoByTwo ==
  /\ Width = 2 /\ Height = 2
  /\ sx = 0 /\ sy = 0 /\ fx = 1 /\ fy = 1
  /\ mask = {}

\* C12 as stated: on the 2x2 scenario Generate returns with exactly 3 of
\* the 4 internal walls removed, and Solve then returns a path of exactly
\* 3 cells.
C12_ExactlyThreeWalls ==
  (TwoByTwo /\ Returned) =>
    /\ OpenWalls(adj_out) = 3
    /\ pc = "done" => (ret = "true" /\ Len(path_out) = 3)

\* C12, amended: on the 2x2 scenario Generate returns with 2 or 3 of the 4
\* internal walls removed (2 when the first two walls drawn already join
\* start to finish), and Solve then returns true with a path of exactly 3
\* cells.
C12_TwoOrThreeWalls ==
  (TwoByTwo /\ Returned) =>
    /\ OpenWalls(adj_out) \in {2, 3}
    /\ pc = "done" => (ret = "true" /\ Len(path_out) = 3)

C12_Witness ==
  /\ TwoByTwo
  /\ pc = "done"
  /\ ret = "true"
  /\ OpenWalls(adj_out) = 2

\* C13: on a 3x3 grid where start and finish are adjacent and every other
\* cell is masked, the only wall ever open is the one between start and
\* finish, so no wall next to a masked cell comes down, and Generate has
\* left its loop as soon as a wall is open.
C13_OnlyStartFinishWall ==
  /\ \A c \in Cells :
       /\ adj_out[c].to_east => {c, Pos(c[1], c[2] + 1)} = {Start, Finish}
       /\ adj_out[c].to_south => {c, Pos(c[1] + 1, c[2])} = {Start, Finish}
  /\ OpenWalls(adj_out) > 0 => pc # "generate"

\* C14 as stated: Solve never changes the connectivity grid, and a second
\* call on the same grid with the same start and finish ends with the same
\* return value and the same contents of path_out as the first, whatever
\* path_out held before either call.
C14_SameResultTwice ==
  twin.kind = "solve" =>
    /\ adj_out = twin.adj_out
    /\ pc = "done" => (ret = twin.ret /\ path_out = twin.path_out)

\* C14, amended: Solve never changes the connectivity grid, and a second
\* call on the same grid with the same start and finish gives the same
\* return value; when that value is true path_out is the same path,
\* whatever path_out held before the call, and when it is false path_out
\* still holds what it held before the call.
C14_SameReturnSameFoundPath ==
  twin.kind = "solve" =>
    /\ adj_out = twin.adj_out
    /\ pc = "done" =>
         /\ ret = twin.ret
         /\ ret = "true" => path_out = twin.path_out
         /\ ret = "false" => path_out = twin.held

C14_Witness ==
  /\ twin.kind = "solve"
  /\ pc = "done"
  /\ ret = "true"
  /\ twin.held # <<>>
  /\ Len(path_out) >= 3

\* C15: in every state reached by Generate, operator== holds of the
\* EqClasses of two cells exactly when a path of open walls joins the two
\* cells in the connectivity grid built so far.
C15_RepIffLinked ==
  \A comp \in Components(adj_out, Height, Width) :
    \A c1 \in comp, c2 \in Cells :
      ec_equal(pos2ec, c1, c2).result <=> c2 \in comp

\* Three or more cells in one class, one of them two pointers away from
\* its representative, while another class is left.
C15_Witness ==
  /\ pc = "generate"
  /\ \E c \in Cells :
       /\ pos2ec[pos2ec[c]] # pos2ec[c]
       /\ \E d \in Cells : ~ec_equal(pos2ec, c, d).result

\* C16: in every state reached by Generate the open walls form a forest
\* over the whole grid: every open wall is the only connection between the
\* two cells it joins (no cycle anywhere), and the number of open walls
\* equals productive_iterations equals Width*Height minus the number of
\* components, so it is at most Width*Height - 1.
C16_Forest ==
  LET walls == WallsDown(adj_out, Height, Width)
      parts == Components(adj_out, Height, Width)
  IN  /\ \A e \in walls :
           \A b \in JoinBlocks({{c} : c \in Cells}, walls \ {e}) :
             ~(e[1] \in b /\ e[2] \in b)
      /\ OpenWalls(adj_out) = Cardinality(walls)
      /\ OpenWalls(adj_out) = productive_iterations
      /\ productive_iterations = Width * Height - Cardinality(parts)
      /\ OpenWalls(adj_out) <= Width * Height - 1

\* Three walls are down in a forest of several trees, and a candidate wall
\* has been turned down.
C16_Witness ==
  /\ pc = "generate"
  /\ productive_iterations >= 3
  /\ draws > productive_iterations
  /\ Cardinality(Components(adj_out, Height, Width)) >= 2
  /\ \E b \in Components(adj_out, Height, Width) : Cardinality(b) >= 3

\* C17: on every Height x Width grid, flags set on the last column's
\* to_east and the last row's to_south included, every element of adj that
\* Solve reads lies at a row in [0, Height) and a column in [0, Width), and
\* every coordinate of every path in the fringe and of path_out lies inside
\* the grid: a flag pointing outside the grid adds no step.
C17_InRange ==
  /\ \A i \in 1 .. Len(fringe) :
       \A j \in 1 .. Len(fringe[i]) : fringe[i][j] \in Cells
  /\ \A j \in 1 .. Len(path_out) : path_out[j] \in Cells
  /\ (pc = "solve" /\ fringe # <<>>) =>
       Reads(Height, Width, Back(Back(fringe))) \subseteq Cells

\* Solve has searched through the bottom-right cell while both of its
\* flags point outside the grid.
C17_Witness ==
  /\ pc = "done"
  /\ ret = "true"
  /\ adj_out[Pos(Height - 1, Width - 1)].to_east
  /\ adj_out[Pos(Height - 1, Width - 1)].to_south
  /\ \E j \in 1 .. Len(path_out) - 1 :
       j > 1 /\ path_out[j] = Pos(Height - 1, Width - 1)

\* C18: with Width, Height >= 2 and an empty mask, under fair draws
\* Generate eventually returns with start and finish joined by open walls,
\* and productive_iterations never exceeds Width*Height - 1.
C18_GenerateTerminates ==
  /\ <>(pc = "generated" /\ Linked(Start, Finish))
  /\ [](productive_iterations <= Width * Height - 1)

\* Generate has returned only with its last possible wall.
C18_Witness ==
  /\ mask = {}
  /\ pc = "generated"
  /\ productive_iterations = Width * Height - 1

NoRepeat(path) == \A i, j \in 1 .. Len(path) : i # j => path[i] # path[j]

\* C19: on every grid of flags, cycles of open walls included, Solve
\* eventually returns; every iteration that does not return leaves the
\* rest of the fringe as it was and pushes only paths that extend the path
\* it took by one cell and repeat no cell; and no path in the fringe is
\* longer than Width*Height.
C19_SolveTerminates ==
  /\ <>(pc = "done")
  /\ [](\A i \in 1 .. Len(fringe) : Len(fringe[i]) <= Width * Height)
  /\ [][(pc = "solve" /\ pc' = "solve") =>
          /\ SubSeq(fringe', 1, Len(fringe) - 1) = PopBack(fringe)
          /\ \A i \in Len(fringe) .. Len(fringe') :
               /\ Len(fringe'[i]) = Len(Back(fringe)) + 1
               /\ PopBack(fringe'[i]) = Back(fringe)
               /\ NoRepeat(fringe'[i])]_vars

\* Solve has searched all the way round a cycle of four open walls that
\* start is joined to, and returned false.
C19_Witness ==
  /\ pc = "done"
  /\ ret = "false"
  /\ \E c \in Cells :
       /\ c[1] + 1 < Height
       /\ c[2] + 1 < Width
       /\ adj_out[c].to_east
       /\ adj_out[c].to_south
       /\ adj_out[Pos(c[1], c[2] + 1)].to_south
       /\ adj_out[Pos(c[1] + 1, c[2])].to_east
       /\ Linked(Start, c)

\* C20: in every state reached by Generate, to_east and to_south of every
\* masked cell are false, to_east is false on every cell of the last
\* column and to_south on every cell of the last row; and no step clears
\* a flag that was set.
C20_FlagsStayInside ==
  /\ [](\A c \in Cells :
         /\ c \in mask => (~adj_out[c].to_east /\ ~adj_out[c].to_south)
         /\ c[2] = Width - 1 => ~adj_out[c].to_east
         /\ c[1] = Height - 1 => ~adj_out[c].to_south)
  /\ [][\A c \in Cells :
          /\ adj_out[c].to_east => adj_out'[c].to_east
          /\ adj_out[c].to_south => adj_out'[c].to_south]_vars

\* A masked cell has been drawn as candidate and skipped, a wall next to a
\* masked cell is down, and Generate goes on.
C20_Witness ==
  /\ pc = "generate"
  /\ mask # {}
  /\ total_iterations > productive_iterations
  /\ productive_iterations >= 2
  /\ \E c \in mask : c[2] > 0 /\ adj_out[Pos(c[1], c[2] - 1)].to_east

====
